---- MODULE Spec2Model ----
(***************************************************************************)
(* Smart Memories: the record store (src/utils/export.ts, db part), the    *)
(* data-URL codec, the archive exporter/importer and the page handlers     *)
(* that read and write memories (src/unnamed/part_000).                    *)
(*                                                                         *)
(* Conventions.  An optional JavaScript value (T | undefined | null) is a  *)
(* sequence of length at most one: <<>> is undefined/null, <<v>> is v.     *)
(* A string that the code only compares and copies is a TLA+ string; a     *)
(* data URL is a sequence of tokens so that split(','), the mime regular   *)
(* expression and atob are computed, not assumed.  A timestamp (the ISO    *)
(* string of a Date) is the clock value it was taken at.  A text is a      *)
(* sequence of strings: plaintext "note" is <<"note">>, '' is <<>>, and    *)
(* the ciphertext of t under passphrase k is <<"AES", k>> \o t.            *)
(***************************************************************************)
EXTENDS Integers, Sequences, FiniteSets, TLC

VARIABLES
    memoriesStore,   \* object store 'memories': id -> Memory
    settingsStore,   \* object store 'settings': key -> AppSettings
    call,            \* the store/archive call last made (name and argument)
    ret,             \* what that call returned
    download,        \* memories_data.json of the last export, if any
    untypedMime,     \* the media type this browser's FileReader writes for a
                     \* blob whose type is ''
    now,             \* the clock: new Date()
    nextId,          \* generateId: ids are handed out once, in this order
    isModalOpen,     \* Home.isModalOpen
    editingMemory,   \* Home.editingMemory, optional
    form,            \* MemoryModal's state: photoFile, photoPreview,
                     \* textMemory, unlockDate, audioBlob, isRecording
    viewingMemory,   \* Home.viewingMemory, optional (isViewModalOpen with it)
    settingsPanel    \* SettingsPanel's state while Home.showSettings:
                     \* settings and encryptionKey; <<>> while it is closed

dbVars == <<memoriesStore, settingsStore>>
envVars == <<untypedMime, now>>
uiVars == <<nextId, isModalOpen, editingMemory, form, viewingMemory, settingsPanel>>
\* initDB and its callers: the module variable dbInstance, where each caller
\* stands in initDB, the handle each caller was given, and the number of
\* openDB calls made.
VARIABLES dbInstance, initPc, initGot, opened

initVars == <<dbInstance, initPc, initGot, opened>>

\* The audio streams getUserMedia has handed to startRecording whose tracks
\* have not been stopped.
VARIABLE liveStreams

\* The theme provider: its darkMode state, whether the document has the
\* class 'dark', whether loadTheme has had its settings, and the
\* toggleDarkMode calls whose storage operations are pending, oldest first.
VARIABLES darkMode, docDark, themeLoaded, toggleQueue

themeVars == <<darkMode, docDark, themeLoaded, toggleQueue>>

auxVars == <<initVars, liveStreams, themeVars>>

vars == <<memoriesStore, settingsStore, call, ret, download, untypedMime, now,
          nextId, isModalOpen, editingMemory, form, viewingMemory, settingsPanel,
          auxVars>>

\* ------------------------------------------------------------- bounds

\* Most toggleDarkMode calls pending at once.
MaxPending == 2

\* Longest payload of a token handed to dataUrlToBlob.
MaxPayload == 3

\* Most audio streams held at once.
MaxStreams == 2

\* Largest clock value of a run.
MaxTime == 1

\* Number of ids generateId hands out in a run.
MaxIds == 1

\* Largest number of encryption layers a stored text gets.
MaxLayers == 1

\* ---------------------------------------------------- optional values

None == <<>>

Some(v) == <<v>>

\* a || b on optional values
OrElse(a, b) == IF a # None THEN a ELSE b

\* ------------------------------------------------------------ codec

Base64Chars ==
    << "A","B","C","D","E","F","G","H","I","J","K","L","M","N","O","P",
       "Q","R","S","T","U","V","W","X","Y","Z","a","b","c","d","e","f",
       "g","h","i","j","k","l","m","n","o","p","q","r","s","t","u","v",
       "w","x","y","z","0","1","2","3","4","5","6","7","8","9","+","/" >>

Base64Alphabet == { Base64Chars[i] : i \in 1..64 }

\* Character -> its position in the alphabet, from 1.
Base64Position ==
    [c \in Base64Alphabet |-> CHOOSE i \in 1..64 : Base64Chars[i] = c]

Base64Index(c) == Base64Position[c]

IsBase64Char(c) == c \in Base64Alphabet

\* btoa over a byte sequence: 3 bytes -> 4 characters, '=' padding.
RECURSIVE Btoa(_)
Btoa(bytes) ==
    IF Len(bytes) = 0 THEN <<>>
    ELSE IF Len(bytes) = 1 THEN
        LET n == bytes[1] * 65536
        IN  << Base64Chars[(n \div 262144) + 1],
               Base64Chars[((n \div 4096) % 64) + 1], "=", "=" >>
    ELSE IF Len(bytes) = 2 THEN
        LET n == bytes[1] * 65536 + bytes[2] * 256
        IN  << Base64Chars[(n \div 262144) + 1],
               Base64Chars[((n \div 4096) % 64) + 1],
               Base64Chars[((n \div 64) % 64) + 1], "=" >>
    ELSE
        LET n == bytes[1] * 65536 + bytes[2] * 256 + bytes[3]
        IN  << Base64Chars[(n \div 262144) + 1],
               Base64Chars[((n \div 4096) % 64) + 1],
               Base64Chars[((n \div 64) % 64) + 1],
               Base64Chars[(n % 64) + 1] >>
            \o Btoa(SubSeq(bytes, 4, Len(bytes)))

\* atob, step 1: with a length divisible by 4, one or two trailing '=' go.
StripPadding(s) ==
    IF Len(s) % 4 = 0 /\ Len(s) > 0 /\ s[Len(s)] = "="
    THEN IF s[Len(s) - 1] = "="
         THEN SubSeq(s, 1, Len(s) - 2)
         ELSE SubSeq(s, 1, Len(s) - 1)
    ELSE s

\* atob throws InvalidCharacterError: length % 4 = 1 after stripping, or a
\* character outside the alphabet.
AtobThrows(s) ==
    LET d == StripPadding(s)
    IN  \/ Len(d) % 4 = 1
        \/ \E i \in 1..Len(d) : ~IsBase64Char(d[i])

RECURSIVE AtobBytes(_)
AtobBytes(d) ==
    IF Len(d) < 2 THEN <<>>
    ELSE IF Len(d) = 2 THEN
        LET n == (Base64Index(d[1]) - 1) * 64 + (Base64Index(d[2]) - 1)
        IN  << n \div 16 >>
    ELSE IF Len(d) = 3 THEN
        LET n == (Base64Index(d[1]) - 1) * 4096 + (Base64Index(d[2]) - 1) * 64
                 + (Base64Index(d[3]) - 1)
        IN  << n \div 1024, (n \div 4) % 256 >>
    ELSE
        LET n == (Base64Index(d[1]) - 1) * 262144 + (Base64Index(d[2]) - 1) * 4096
                 + (Base64Index(d[3]) - 1) * 64 + (Base64Index(d[4]) - 1)
        IN  << n \div 65536, (n \div 256) % 256, n % 256 >>
            \o AtobBytes(SubSeq(d, 5, Len(d)))

Atob(s) == AtobBytes(StripPadding(s))

\* String(undefined): what atob receives when split(',') left no second part.
UndefinedAsString == << "u","n","d","e","f","i","n","e","d" >>

\* What readAsDataURL may write for a blob without a type: no media type
\* (File API, "return a Data URL without a media-type") or the label the
\* browsers use.
UntypedMimes == {"", "application/octet-stream"}

\* reader.readAsDataURL(blob): "data:<type>;base64,<payload>".
blobToDataUrl(blob) ==
    << "data", ":", IF blob.type = "" THEN untypedMime ELSE blob.type,
       ";", "base64", "," >> \o Btoa(blob.bytes)

\* Positions of the separator in a token sequence.
Commas(s) == { i \in 1..Len(s) : s[i] = "," }

\* dataUrl.split(',')[0]
SplitHead(s) ==
    LET commas == Commas(s)
    IN  IF commas = {} THEN s
        ELSE SubSeq(s, 1, (CHOOSE i \in commas : \A j \in commas : i <= j) - 1)

\* dataUrl.split(',')[1], optional: undefined when there is no separator.
SplitSecond(s) ==
    LET commas == Commas(s)
    IN  IF commas = {} THEN None
        ELSE LET c1 == CHOOSE i \in commas : \A j \in commas : i <= j
                 later == { j \in commas : j > c1 }
                 stop == IF later = {} THEN Len(s) + 1
                         ELSE CHOOSE i \in later : \A j \in later : i <= j
             IN  Some(SubSeq(s, c1 + 1, stop - 1))

RECURSIVE Join(_)
Join(tokens) ==
    IF tokens = <<>> THEN "" ELSE Head(tokens) \o Join(Tail(tokens))

\* arr[0].match(/:(.*?);/)?.[1] || '' : from the first ':' that has a ';'
\* after it, lazily up to the first such ';'.
MimeOf(head) ==
    LET starts == { i \in 1..Len(head) :
                      head[i] = ":" /\ \E j \in (i + 1)..Len(head) : head[j] = ";" }
    IN  IF starts = {} THEN ""
        ELSE LET i == CHOOSE a \in starts : \A b \in starts : a <= b
                 j == CHOOSE a \in (i + 1)..Len(head) :
                        /\ head[a] = ";"
                        /\ \A b \in (i + 1)..(a - 1) : head[b] # ";"
             IN  Join(SubSeq(head, i + 1, j - 1))

\* The argument atob gets: arr[1], or the string of undefined.
Payload(dataUrl) ==
    LET second == SplitSecond(dataUrl)
    IN  IF second = None THEN UndefinedAsString ELSE second[1]

\* dataUrlToBlob throws for an undefined argument (split of undefined) or
\* when atob throws.
dataUrlToBlobThrows(optUrl) ==
    \/ optUrl = None
    \/ AtobThrows(Payload(optUrl[1]))

dataUrlToBlob(dataUrl) ==
    [type |-> MimeOf(SplitHead(dataUrl)), bytes |-> Atob(Payload(dataUrl))]

\* ------------------------------------------------------- record store

SETTINGS_KEY == "app-settings"

\* db.put on a store with an in-line key: insert, or replace the row that
\* has the key.
Put(store, key, row) ==
    [k \in DOMAIN store \cup {key} |-> IF k = key THEN row ELSE store[k]]

\* db.put rejects a record whose key path yields no valid key (DataError).
saveMemoryThrows(memory) == memory.id = None

\* Mutant: db.add in place of db.put, which leaves a stored row as it is.
saveMemoryAdd(store, memory) ==
    IF memory.id[1] \in DOMAIN store THEN store
    ELSE Put(store, memory.id[1], memory)

saveMemory(store, memory) == Put(store, memory.id[1], memory)

\* Keys in ascending order, as getAll enumerates them.
RECURSIVE SortedKeys(_)
SortedKeys(keys) ==
    IF keys = {} THEN <<>>
    ELSE LET k == CHOOSE a \in keys : \A b \in keys : a <= b
         IN  <<k>> \o SortedKeys(keys \ {k})

getAllMemories(store) ==
    LET keys == SortedKeys(DOMAIN store)
    IN  [n \in 1..Len(keys) |-> store[keys[n]]]

getMemoryById(store, id) ==
    IF id \in DOMAIN store THEN Some(store[id]) ELSE None

\* Mutant: store.clear() in place of store.delete(id).
deleteMemoryClear(store, id) == [k \in {} |-> store[k]]

deleteMemory(store, id) == [k \in DOMAIN store \ {id} |-> store[k]]

DefaultSettings ==
    [darkMode |-> FALSE, encryptionEnabled |-> FALSE, encryptionKey |-> None]

\* settings?.value || { darkMode: false, encryptionEnabled: false }
getSettings(store) ==
    IF SETTINGS_KEY \in DOMAIN store THEN store[SETTINGS_KEY].value
    ELSE DefaultSettings

\* Mutant: one row per value of darkMode instead of the one well-known key.
saveSettingsKeyed(store, settings) ==
    LET key == IF settings.darkMode THEN "dark-settings" ELSE SETTINGS_KEY
    IN  Put(store, key, [key |-> key, value |-> settings])

saveSettings(store, settings) ==
    Put(store, SETTINGS_KEY, [key |-> SETTINGS_KEY, value |-> settings])

EmptyStore == [k \in {} |-> None]

\* ------------------------------------------------------ encryption

\* ENCRYPTION_KEY, the built-in passphrase.
ENCRYPTION_KEY == "smart-memories-app-key"

\* userKey || ENCRYPTION_KEY
KeyOf(userKey) ==
    IF userKey # None /\ userKey[1] # "" THEN userKey[1] ELSE ENCRYPTION_KEY

\* encryptText: AES.encrypt(text, key).toString()
encryptText(text, userKey) == <<"AES", KeyOf(userKey)>> \o text

\* ------------------------------------------------------ sample values

\* Files and recordings: a photo with a type, a photo whose type the
\* browser could not tell (File.type is ''), an empty file, a recording.
Jpeg == [type |-> "image/jpeg", bytes |-> <<255, 216, 255>>]

Untyped == [type |-> "", bytes |-> <<77, 97>>]

EmptyPng == [type |-> "image/png", bytes |-> <<>>]

Webm == [type |-> "audio/webm", bytes |-> <<26>>]

Passphrases == {"k1"}

AllSettings ==
    [darkMode : BOOLEAN, encryptionEnabled : BOOLEAN,
     encryptionKey : {None} \cup {Some(k) : k \in Passphrases}]

\* Records as callers of the store hand them over.
Memory1 ==
    [id |-> Some(1), photoUrl |-> blobToDataUrl(Jpeg), photoBlob |-> Some(Jpeg),
     textMemory |-> <<"note">>, audioBlob |-> None, unlockDate |-> None,
     isEncrypted |-> FALSE, createdAt |-> Some(0), updatedAt |-> Some(0)]

Memory1Edited ==
    [id |-> Some(1), photoUrl |-> blobToDataUrl(Jpeg), photoBlob |-> Some(Jpeg),
     textMemory |-> encryptText(<<"note">>, None), audioBlob |-> Some(Webm),
     unlockDate |-> Some(2), isEncrypted |-> TRUE,
     createdAt |-> Some(0), updatedAt |-> Some(1)]

Memory2 ==
    [id |-> Some(2), photoUrl |-> blobToDataUrl(Untyped), photoBlob |-> Some(Untyped),
     textMemory |-> <<>>, audioBlob |-> Some(Webm), unlockDate |-> None,
     isEncrypted |-> FALSE, createdAt |-> Some(1), updatedAt |-> Some(1)]

Memory2Edited ==
    [id |-> Some(2), photoUrl |-> <<>>, photoBlob |-> Some(EmptyPng),
     textMemory |-> <<"note">>, audioBlob |-> None, unlockDate |-> Some(1),
     isEncrypted |-> TRUE, createdAt |-> Some(1), updatedAt |-> Some(2)]

Memory3 ==
    [id |-> Some(3), photoUrl |-> blobToDataUrl(Jpeg), photoBlob |-> Some(Jpeg),
     textMemory |-> encryptText(<<"note">>, Some("k1")), audioBlob |-> None,
     unlockDate |-> None, isEncrypted |-> TRUE,
     createdAt |-> Some(2), updatedAt |-> Some(2)]

SampleMemories == {Memory1, Memory1Edited, Memory2, Memory2Edited, Memory3}

\* The records the archive runs start from.
ArchiveMemories == {Memory1Edited, Memory2, Memory3}

SampleIds == { m.id[1] : m \in SampleMemories }

\* ----------------------------------------------- calls on the store

NoCall == [fn |-> "none"]

NoRet == [threw |-> FALSE]

\* `replaced` notes the record the id held when the call was made.
SaveMemoryCall(m) ==
    /\ ~saveMemoryThrows(m)
    /\ memoriesStore' = saveMemory(memoriesStore, m)
    /\ call' = [fn |-> "saveMemory", memory |-> m,
                replaced |-> getMemoryById(memoriesStore, m.id[1])]
    /\ ret' = [threw |-> FALSE]
    /\ UNCHANGED <<settingsStore, download, envVars, uiVars, auxVars>>

GetAllMemoriesCall ==
    /\ call' = [fn |-> "getAllMemories"]
    /\ ret' = [threw |-> FALSE, all |-> getAllMemories(memoriesStore)]
    /\ UNCHANGED <<dbVars, download, envVars, uiVars, auxVars>>

GetMemoryByIdCall(id) ==
    /\ call' = [fn |-> "getMemoryById", id |-> id]
    /\ ret' = [threw |-> FALSE, memory |-> getMemoryById(memoriesStore, id)]
    /\ UNCHANGED <<dbVars, download, envVars, uiVars, auxVars>>

\* `present` notes whether the id was stored when the call was made.
DeleteMemoryCall(id) ==
    /\ memoriesStore' = deleteMemory(memoriesStore, id)
    /\ call' = [fn |-> "deleteMemory", id |-> id,
                present |-> id \in DOMAIN memoriesStore]
    /\ ret' = [threw |-> FALSE]
    /\ UNCHANGED <<settingsStore, download, envVars, uiVars, auxVars>>

GetSettingsCall ==
    /\ call' = [fn |-> "getSettings"]
    /\ ret' = [threw |-> FALSE, settings |-> getSettings(settingsStore)]
    /\ UNCHANGED <<dbVars, download, envVars, uiVars, auxVars>>

SaveSettingsCall(s) ==
    /\ settingsStore' = saveSettings(settingsStore, s)
    /\ call' = [fn |-> "saveSettings", settings |-> s]
    /\ ret' = [threw |-> FALSE]
    /\ UNCHANGED <<memoriesStore, download, envVars, uiVars, auxVars>>

\* useState initial values of MemoryModal.
InitialForm ==
    [photoFile |-> None, photoPreview |-> <<>>, textMemory |-> <<>>,
     unlockDate |-> None, audioBlob |-> None, isRecording |-> FALSE]

\* The page as it is after loading.
\* The code that calls initDB while the page starts: the effect of App, the
\* theme provider's loadTheme (through getSettings) and Home's loadMemories
\* (through getAllMemories).
Callers == {"App", "loadTheme", "loadMemories"}

\* let dbInstance = null, and nobody has called initDB.
InitDb ==
    /\ dbInstance = None
    /\ initPc = [c \in Callers |-> "idle"]
    /\ initGot = [c \in Callers |-> None]
    /\ opened = 0

\* useState(false); the effect has called loadTheme, its getSettings is
\* pending.
InitTheme ==
    /\ darkMode = FALSE
    /\ docDark = FALSE
    /\ themeLoaded = FALSE
    /\ toggleQueue = <<>>

InitAux == InitDb /\ liveStreams = 0 /\ InitTheme

InitUi ==
    /\ nextId = 1
    /\ isModalOpen = FALSE
    /\ editingMemory = None
    /\ form = InitialForm
    /\ viewingMemory = None
    /\ settingsPanel = None

InitStore ==
    /\ memoriesStore = EmptyStore
    /\ settingsStore = EmptyStore
    /\ call = NoCall
    /\ ret = NoRet
    /\ download = None
    /\ untypedMime \in UntypedMimes
    /\ now = 0
    /\ InitUi
    /\ InitAux

NextStore ==
    \/ \E m \in SampleMemories : SaveMemoryCall(m)
    \/ GetAllMemoriesCall
    \/ \E id \in SampleIds : GetMemoryByIdCall(id)
    \/ \E id \in SampleIds : DeleteMemoryCall(id)
    \/ GetSettingsCall
    \/ \E s \in AllSettings : SaveSettingsCall(s)

\* The store driven call by call.
SpecStore == InitStore /\ [][NextStore]_vars

\* ------------------------------------------------------------ archive

\* JSON.stringify of an object: a property whose value is undefined is left
\* out.  `full` maps every property to an optional value.
JsonObject(full) ==
    [f \in { g \in DOMAIN full : full[g] # None } |-> full[f][1]]

\* A property read from a parsed JSON object: undefined when absent.
Field(obj, f) == IF f \in DOMAIN obj THEN Some(obj[f]) ELSE None

\* One element of exportData.memories as it is written: { ...memory,
\* photoDataUrl, audioDataUrl }; a Blob stringifies to {}.
ManifestEntry(memory) ==
    JsonObject(
        [id |-> memory.id,
         photoUrl |-> Some(memory.photoUrl),
         photoBlob |-> Some(<<>>),
         textMemory |-> Some(memory.textMemory),
         audioBlob |-> IF memory.audioBlob = None THEN None ELSE Some(<<>>),
         unlockDate |-> memory.unlockDate,
         isEncrypted |-> Some(memory.isEncrypted),
         createdAt |-> memory.createdAt,
         updatedAt |-> memory.updatedAt,
         photoDataUrl |-> Some(blobToDataUrl(memory.photoBlob[1])),
         audioDataUrl |-> IF memory.audioBlob = None THEN None
                          ELSE Some(blobToDataUrl(memory.audioBlob[1]))])

\* readAsDataURL of a missing photoBlob throws, and the export with it.
exportThrows(store) == \E k \in DOMAIN store : store[k].photoBlob = None

\* memories_data.json: the records in getAllMemories order.  `json` says the
\* text parses, `hasMemories` that the parsed value has a truthy `memories`,
\* `isArray` that Array.isArray holds of it.
exportAllData(store, date) ==
    LET memories == getAllMemories(store)
    IN  [json |-> TRUE, hasMemories |-> TRUE, isArray |-> TRUE,
         version |-> "1.0.0", exportDate |-> date,
         memories |-> [n \in DOMAIN memories |-> ManifestEntry(memories[n])]]

\* memory.audioDataUrl ? ... : undefined
HasAudioToken(entry) ==
    "audioDataUrl" \in DOMAIN entry /\ entry.audioDataUrl # <<>>

\* newMemory of importData.
ImportedMemory(entry) ==
    [id |-> Field(entry, "id"),
     photoUrl |-> entry.photoUrl,
     photoBlob |-> Some(dataUrlToBlob(entry.photoDataUrl)),
     audioBlob |-> IF HasAudioToken(entry)
                   THEN Some(dataUrlToBlob(entry.audioDataUrl)) ELSE None,
     textMemory |-> entry.textMemory,
     unlockDate |-> Field(entry, "unlockDate"),
     isEncrypted |-> entry.isEncrypted,
     createdAt |-> Field(entry, "createdAt"),
     updatedAt |-> Field(entry, "updatedAt")]

\* dataUrlToBlob of the photo token or of the audio token throws.
TokenThrows(entry) ==
    \/ dataUrlToBlobThrows(Field(entry, "photoDataUrl"))
    \/ HasAudioToken(entry) /\ dataUrlToBlobThrows(Some(entry.audioDataUrl))

\* The body of the inner try throws: a token does not decode, or the put
\* is rejected.
EntryThrows(entry) ==
    IF TokenThrows(entry) THEN TRUE
    ELSE saveMemoryThrows(ImportedMemory(entry))

\* Mutant: no inner try/catch, the first entry that throws ends the import
\* with the error.
RECURSIVE ImportLoopNoCatch(_, _, _)
ImportLoopNoCatch(entries, store, count) ==
    IF entries = <<>> THEN [threw |-> FALSE, count |-> count, store |-> store]
    ELSE IF EntryThrows(Head(entries))
         THEN [threw |-> TRUE, count |-> 0, store |-> store]
         ELSE ImportLoopNoCatch(Tail(entries),
                                saveMemory(store, ImportedMemory(Head(entries))),
                                count + 1)

\* for (const memory of importData.memories) { try { ... count++ } catch {} }
RECURSIVE ImportLoop(_, _, _)
ImportLoop(entries, store, count) ==
    IF entries = <<>> THEN [threw |-> FALSE, count |-> count, store |-> store]
    ELSE IF TokenThrows(Head(entries))
         THEN ImportLoop(Tail(entries), store, count)
         ELSE LET newMemory == ImportedMemory(Head(entries))
              IN  IF saveMemoryThrows(newMemory)
                  THEN ImportLoop(Tail(entries), store, count)
                  ELSE ImportLoop(Tail(entries), saveMemory(store, newMemory),
                                  count + 1)

\* Mutant: the format check is missing.
importDataUnchecked(file, store) ==
    IF ~file.json THEN [threw |-> TRUE, count |-> 0, store |-> store]
    ELSE ImportLoop(file.memories, store, 0)

\* importData: the result, and the store it leaves.
importData(file, store) ==
    IF ~file.json \/ ~file.hasMemories \/ ~file.isArray
    THEN [threw |-> TRUE, count |-> 0, store |-> store]
    ELSE ImportLoop(file.memories, store, 0)

\* Ways an entry of a manifest gets damaged between export and import.
Damages == {"truncated", "badchar", "badaudio", "noid"}

Damaged(entry, damage) ==
    CASE damage = "truncated" ->
            [entry EXCEPT !.photoDataUrl = SplitHead(@)]
      [] damage = "badchar" ->
            [entry EXCEPT !.photoDataUrl = @ \o <<"!">>]
      [] damage = "badaudio" ->
            [entry EXCEPT !.audioDataUrl = @ \o <<"*">>]
      [] damage = "noid" ->
            [f \in DOMAIN entry \ {"id"} |-> entry[f]]
      [] damage = "none" -> entry

CanDamage(entry, damage) ==
    damage = "badaudio" => "audioDataUrl" \in DOMAIN entry

\* The manifest with the entries at the positions `bad` damaged.
DamagedFile(file, bad, damage) ==
    [file EXCEPT !.memories =
        [n \in DOMAIN file.memories |->
            IF n \in bad THEN Damaged(file.memories[n], damage)
            ELSE file.memories[n]]]

\* Files that are no manifest: the list under another name, an array-like
\* object in place of the array, text that is not JSON.
Invalids == {"nolist", "notarray", "notjson"}

InvalidFile(file, how) ==
    CASE how = "nolist" -> [file EXCEPT !.hasMemories = FALSE, !.isArray = FALSE,
                                        !.memories = <<>>]
      [] how = "notarray" -> [file EXCEPT !.isArray = FALSE]
      [] how = "notjson" -> [file EXCEPT !.json = FALSE]

\* Mutant: a record whose attachment cannot be converted is left out and
\* the archive is built from the others.
exportOutcomeSkipping(store, date, unreadable) ==
    [threw |-> FALSE,
     file |-> Some(exportAllData(
                  [k \in { j \in DOMAIN store : j \notin unreadable /\ store[j].photoBlob # None }
                      |-> store[k]], date))]

\* exportAllData as its caller sees it: blobToDataUrl rejects for a record
\* whose blob the FileReader cannot read (`unreadable`, the reader's
\* onerror) or whose photoBlob is missing; the catch around the whole body
\* throws 'Failed to export data' before anything is offered for download.
exportOutcome(store, date, unreadable) ==
    IF exportThrows(store) \/ (DOMAIN store \cap unreadable) # {}
    THEN [threw |-> TRUE, file |-> None]
    ELSE [threw |-> FALSE, file |-> Some(exportAllData(store, date))]

\* exportAllData(): the archive is offered for download when it is built.
ExportAllDataCall(unreadable) ==
    /\ LET r == exportOutcome(memoriesStore, now, unreadable)
       IN  /\ download' = IF r.file = None THEN download
                          ELSE Some([file |-> r.file[1], from |-> memoriesStore])
           /\ ret' = [threw |-> r.threw]
    /\ call' = [fn |-> "exportAllData", unreadable |-> unreadable]
    /\ UNCHANGED <<dbVars, envVars, uiVars, auxVars>>

\* The downloaded manifest, intact (bad = {}) or damaged, is imported.
ImportDataCall(bad, damage) ==
    /\ download # None
    /\ bad = {} => damage = "none"
    /\ bad # {} => damage \in Damages
    /\ \A n \in bad : CanDamage(download[1].file.memories[n], damage)
    /\ LET file == DamagedFile(download[1].file, bad, damage)
           r == importData(file, memoriesStore)
       IN  /\ memoriesStore' = r.store
           /\ call' = [fn |-> "importData", valid |-> TRUE, bad |-> bad]
           /\ ret' = [threw |-> r.threw, count |-> r.count]
    /\ UNCHANGED <<settingsStore, download, envVars, uiVars, auxVars>>

ImportInvalidCall(how) ==
    /\ download # None
    /\ LET file == InvalidFile(download[1].file, how)
           r == importData(file, memoriesStore)
       IN  /\ memoriesStore' = r.store
           /\ call' = [fn |-> "importData", valid |-> FALSE, bad |-> {}]
           /\ ret' = [threw |-> r.threw, count |-> r.count]
    /\ UNCHANGED <<settingsStore, download, envVars, uiVars, auxVars>>

NextArchive ==
    \/ \E m \in ArchiveMemories : SaveMemoryCall(m)
    \/ \E id \in SampleIds : DeleteMemoryCall(id)
    \/ \E unreadable \in SUBSET DOMAIN memoriesStore : ExportAllDataCall(unreadable)
    \/ /\ download # None
       /\ \E bad \in SUBSET DOMAIN download[1].file.memories,
             damage \in Damages \cup {"none"} : ImportDataCall(bad, damage)
    \/ \E how \in Invalids : ImportInvalidCall(how)

\* The store with the exporter and the importer.
SpecArchive == InitStore /\ [][NextArchive]_vars

\* ------------------------------------------------------------ the codec

\* What stands before the separator of a token: a full head, one with an
\* empty content type, one without the ':' of the tag, and nothing.
Heads ==
    { <<"data", ":", "image/png", ";", "base64">>,
      <<"data", ":", ";", "base64">>,
      <<"data", ";", "base64">>,
      <<>> }

PayloadChars == {"A", "/", "=", "*"}

Payloads == UNION { [1..n -> PayloadChars] : n \in 0..MaxPayload }

\* Tokens with a separator, and heads alone.
Tokens == { h \o <<",">> \o p : h \in Heads, p \in Payloads } \cup Heads

DataUrlToBlobCall(dataUrl) ==
    /\ call' = [fn |-> "dataUrlToBlob", dataUrl |-> dataUrl]
    /\ ret' = IF dataUrlToBlobThrows(Some(dataUrl))
              THEN [threw |-> TRUE]
              ELSE [threw |-> FALSE, blob |-> dataUrlToBlob(dataUrl)]
    /\ UNCHANGED <<dbVars, download, envVars, uiVars, auxVars>>

NextCodec == \E dataUrl \in Tokens : DataUrlToBlobCall(dataUrl)

\* dataUrlToBlob applied to tokens, well formed and not.
SpecCodec == InitStore /\ [][NextCodec]_vars

\* C14: dataUrlToBlob throws for a token with no ',' separator, for one
\* with no content type before the separator, and for one whose payload has
\* a character outside the base64 alphabet.
C14_MalformedTokenThrows ==
    call.fn = "dataUrlToBlob" =>
        LET dataUrl == call.dataUrl
            noSeparator == Commas(dataUrl) = {}
            noContentType == MimeOf(SplitHead(dataUrl)) = ""
            badPayload == /\ ~noSeparator
                          /\ \E i \in 1..Len(Payload(dataUrl)) :
                                /\ ~IsBase64Char(Payload(dataUrl)[i])
                                /\ Payload(dataUrl)[i] # "="
        IN  noSeparator \/ noContentType \/ badPayload => ret.threw

\* ------------------------------------------------------------ initDB

\* A connection is named after the caller whose openDB call made it.

\* initDB up to its await: `if (dbInstance) return dbInstance`, else openDB
\* is called and the caller waits for it.
InitDBCall(c) ==
    /\ initPc[c] # "opening"
    /\ IF dbInstance # None
       THEN /\ initGot' = [initGot EXCEPT ![c] = dbInstance]
            /\ initPc' = [initPc EXCEPT ![c] = "done"]
            /\ UNCHANGED <<dbInstance, opened>>
       ELSE /\ initGot' = [initGot EXCEPT ![c] = None]
            /\ initPc' = [initPc EXCEPT ![c] = "opening"]
            /\ opened' = opened + 1
            /\ UNCHANGED dbInstance
    /\ UNCHANGED <<dbVars, call, ret, download, envVars, uiVars, liveStreams, themeVars>>

\* openDB resolves: `dbInstance = await openDB(...)`, `return dbInstance`.
OpenDBResolves(c) ==
    /\ initPc[c] = "opening"
    /\ dbInstance' = Some(c)
    /\ initGot' = [initGot EXCEPT ![c] = Some(c)]
    /\ initPc' = [initPc EXCEPT ![c] = "done"]
    /\ UNCHANGED <<opened, dbVars, call, ret, download, envVars, uiVars, liveStreams,
                   themeVars>>

NextInit ==
    \/ \E c \in Callers : InitDBCall(c)
    \/ \E c \in Callers : OpenDBResolves(c)

\* The callers of initDB while the page starts, in any interleaving.
SpecInit == InitStore /\ [][NextInit]_vars

\* C12: however the calls of initDB overlap, openDB is called at most once
\* and all callers that have returned hold the same handle, the one kept in
\* dbInstance.
C12_OpenedOnce ==
    /\ opened <= 1
    /\ \A c \in Callers, d \in Callers :
          initPc[c] = "done" /\ initPc[d] = "done" => initGot[c] = initGot[d]
    /\ \A c \in Callers : initPc[c] = "done" => initGot[c] = dbInstance

\* --------------------------------------------------------- the page

\* decryptText: AES.decrypt(text, key).toString(Utf8).  Under the passphrase
\* of the outer layer it is the text that was encrypted; otherwise the
\* decrypted bytes are arbitrary: toString throws 'Malformed UTF-8 data',
\* or yields '' or some other string.
decryptText(encryptedText, userKey) ==
    IF /\ Len(encryptedText) >= 2
       /\ encryptedText[1] = "AES"
       /\ encryptedText[2] = KeyOf(userKey)
    THEN { [threw |-> FALSE, text |-> SubSeq(encryptedText, 3, Len(encryptedText))] }
    ELSE { [threw |-> TRUE, text |-> <<>>],
           [threw |-> FALSE, text |-> <<>>],
           [threw |-> FALSE, text |-> <<"garbled">>] }

\* Number of encryption layers of a text.
RECURSIVE Layers(_)
Layers(text) ==
    IF Len(text) >= 2 /\ text[1] = "AES"
    THEN 1 + Layers(SubSeq(text, 3, Len(text)))
    ELSE 0

\* memory.unlockDate && new Date(memory.unlockDate) > new Date()
isLocked(memory, date) ==
    memory.unlockDate # None /\ memory.unlockDate[1] > date

LockedLabel == <<"Locked until">>

EncryptedLabel == <<"Encrypted">>

UnableLabel == <<"Unable to decrypt">>

\* MemoryCard.getTextPreview: the texts the card may show.  `settings` is
\* the card's state, <<>> until getSettings has answered.  The sample
\* texts are shorter than 50 characters, so slice(0, 50) keeps them whole.
getTextPreview(memory, settings, date) ==
    IF memory.textMemory = <<>> THEN { <<>> }
    ELSE IF isLocked(memory, date) THEN { LockedLabel }
    ELSE IF memory.isEncrypted /\ settings # None
    THEN { IF r.threw THEN EncryptedLabel ELSE r.text :
             r \in decryptText(memory.textMemory, settings[1].encryptionKey) }
    ELSE { memory.textMemory }

\* ViewMemoryModal.getDisplayText: optional texts, <<>> for null.
getDisplayText(memory, settings, date) ==
    IF memory.textMemory = <<>> THEN { Some(<<>>) }
    ELSE IF isLocked(memory, date) THEN { None }
    ELSE IF memory.isEncrypted /\ settings # None
    THEN { IF r.threw THEN Some(UnableLabel) ELSE Some(r.text) :
             r \in decryptText(memory.textMemory, settings[1].encryptionKey) }
    ELSE { Some(memory.textMemory) }

\* The texts ViewMemoryModal renders: the text block is inside the branch
\* that is not locked.
ViewShownTexts(memory, settings, date) ==
    IF isLocked(memory, date) \/ memory.textMemory = <<>> THEN {}
    ELSE { t[1] : t \in getDisplayText(memory, settings, date) }

\* ViewMemoryModal: the Play Audio button is rendered and playAudio plays.
ViewCanPlayAudio(memory, date) ==
    memory.audioBlob # None /\ ~isLocked(memory, date)

\* MemoryModal: the textarea shows the state textMemory.
ModalShownText == form.textMemory

\* MemoryModal: the Play button is rendered (hasAudio) and playAudio plays
\* the state audioBlob.
ModalCanPlayAudio == form.audioBlob # None

\* No overlay is open: the controls of Home can be used.
HomeActive == ~isModalOpen /\ viewingMemory = None /\ settingsPanel = None

\* The effect on [memory, isOpen], no memory: the form is reset.
ResetForm(f) ==
    [photoFile |-> None, photoPreview |-> <<>>, textMemory |-> <<>>,
     unlockDate |-> None, audioBlob |-> None, isRecording |-> f.isRecording]

\* The effect on [memory, isOpen], with a memory: the form shows it.
LoadForm(f, memory) ==
    [f EXCEPT !.photoPreview = memory.photoUrl,
              !.textMemory = memory.textMemory,
              !.unlockDate = memory.unlockDate,
              !.audioBlob = memory.audioBlob]

\* generateId()
generateId == nextId

\* Mutant: createdAt is stamped on every save.
NewMemoryRestamped(memory, f, settings, date) ==
    [id |-> IF memory # None THEN memory[1].id ELSE Some(generateId),
     photoUrl |-> f.photoPreview,
     photoBlob |-> IF f.photoFile # None THEN f.photoFile ELSE memory[1].photoBlob,
     textMemory |-> IF settings.encryptionEnabled /\ f.textMemory # <<>>
                    THEN encryptText(f.textMemory, settings.encryptionKey)
                    ELSE f.textMemory,
     audioBlob |-> f.audioBlob,
     unlockDate |-> f.unlockDate,
     isEncrypted |-> settings.encryptionEnabled,
     createdAt |-> Some(date),
     updatedAt |-> Some(date)]

\* Mutant: the stored photo is not kept when no new file was picked.
NewMemoryNoFallback(memory, f, settings, date) ==
    [id |-> IF memory # None THEN memory[1].id ELSE Some(generateId),
     photoUrl |-> f.photoPreview,
     photoBlob |-> f.photoFile,
     textMemory |-> IF settings.encryptionEnabled /\ f.textMemory # <<>>
                    THEN encryptText(f.textMemory, settings.encryptionKey)
                    ELSE f.textMemory,
     audioBlob |-> f.audioBlob,
     unlockDate |-> f.unlockDate,
     isEncrypted |-> settings.encryptionEnabled,
     createdAt |-> IF memory # None /\ memory[1].createdAt # None
                   THEN memory[1].createdAt ELSE Some(date),
     updatedAt |-> Some(date)]

\* newMemory of handleSave, finalTextMemory included.
NewMemory(memory, f, settings, date) ==
    [id |-> IF memory # None THEN memory[1].id ELSE Some(generateId),
     photoUrl |-> f.photoPreview,
     photoBlob |-> IF f.photoFile # None THEN f.photoFile ELSE memory[1].photoBlob,
     textMemory |-> IF settings.encryptionEnabled /\ f.textMemory # <<>>
                    THEN encryptText(f.textMemory, settings.encryptionKey)
                    ELSE f.textMemory,
     audioBlob |-> f.audioBlob,
     unlockDate |-> f.unlockDate,
     isEncrypted |-> settings.encryptionEnabled,
     createdAt |-> IF memory # None /\ memory[1].createdAt # None
                   THEN memory[1].createdAt ELSE Some(date),
     updatedAt |-> Some(date)]

Quiet == call' = NoCall /\ ret' = NoRet

\* Time passes.
Tick ==
    /\ now < MaxTime
    /\ now' = now + 1
    /\ Quiet
    /\ UNCHANGED <<dbVars, download, untypedMime, uiVars, auxVars>>

\* "Add New Memory"
OpenAddModal ==
    /\ HomeActive
    /\ editingMemory' = None
    /\ isModalOpen' = TRUE
    /\ form' = ResetForm(form)
    /\ Quiet
    /\ UNCHANGED <<dbVars, download, envVars, nextId, viewingMemory, settingsPanel, auxVars>>

\* handleEditMemory(memory), memory one of the listed memories.  Home
\* defines the handler and hands editingMemory to MemoryModal; the markup of
\* Home in this source binds no control to it.
HandleEditMemory(id) ==
    /\ HomeActive
    /\ id \in DOMAIN memoriesStore
    /\ editingMemory' = Some(memoriesStore[id])
    /\ isModalOpen' = TRUE
    /\ form' = LoadForm(form, memoriesStore[id])
    /\ Quiet
    /\ UNCHANGED <<dbVars, download, envVars, nextId, viewingMemory, settingsPanel, auxVars>>

\* handlePhotoChange: the file input is there while there is no preview.
HandlePhotoChange(file) ==
    /\ isModalOpen
    /\ form.photoPreview = <<>>
    /\ form' = [form EXCEPT !.photoFile = Some(file),
                            !.photoPreview = blobToDataUrl(file)]
    /\ Quiet
    /\ UNCHANGED <<dbVars, download, envVars, nextId, isModalOpen, editingMemory,
                   viewingMemory, settingsPanel, auxVars>>

\* The x on the preview.
RemovePhoto ==
    /\ isModalOpen
    /\ form.photoPreview # <<>>
    /\ form' = [form EXCEPT !.photoFile = None, !.photoPreview = <<>>]
    /\ Quiet
    /\ UNCHANGED <<dbVars, download, envVars, nextId, isModalOpen, editingMemory,
                   viewingMemory, settingsPanel, auxVars>>

\* The textarea's onChange.
SetTextMemory(text) ==
    /\ isModalOpen
    /\ form.textMemory # text
    /\ form' = [form EXCEPT !.textMemory = text]
    /\ Quiet
    /\ UNCHANGED <<dbVars, download, envVars, nextId, isModalOpen, editingMemory,
                   viewingMemory, settingsPanel, auxVars>>

\* The date input's onChange; <<>> clears it.
SetUnlockDate(date) ==
    /\ isModalOpen
    /\ form.unlockDate # date
    /\ form' = [form EXCEPT !.unlockDate = date]
    /\ Quiet
    /\ UNCHANGED <<dbVars, download, envVars, nextId, isModalOpen, editingMemory,
                   viewingMemory, settingsPanel, auxVars>>

\* startRecording, the microphone granted and the recorder started.
StartRecording ==
    /\ isModalOpen
    /\ ~form.isRecording
    /\ form.audioBlob = None
    /\ liveStreams < MaxStreams
    /\ liveStreams' = liveStreams + 1
    /\ form' = [form EXCEPT !.isRecording = TRUE]
    /\ Quiet
    /\ UNCHANGED <<dbVars, download, envVars, nextId, isModalOpen, editingMemory,
                   viewingMemory, settingsPanel, initVars, themeVars>>

\* startRecording, the microphone granted, and `new MediaRecorder(stream)`
\* or `start()` throws: the catch reports it; nothing stops the tracks.
StartRecordingFails ==
    /\ isModalOpen
    /\ ~form.isRecording
    /\ form.audioBlob = None
    /\ liveStreams < MaxStreams
    /\ liveStreams' = liveStreams + 1
    /\ Quiet
    /\ UNCHANGED <<dbVars, download, envVars, uiVars, initVars, themeVars>>

\* stopRecording and the recorder's onstop, which stops the tracks of the
\* stream it recorded.
StopRecording ==
    /\ isModalOpen
    /\ form.isRecording
    /\ form' = [form EXCEPT !.isRecording = FALSE, !.audioBlob = Some(Webm)]
    /\ liveStreams' = liveStreams - 1
    /\ Quiet
    /\ UNCHANGED <<dbVars, download, envVars, nextId, isModalOpen, editingMemory,
                   viewingMemory, settingsPanel, initVars, themeVars>>

DeleteAudio ==
    /\ isModalOpen
    /\ form.audioBlob # None
    /\ form' = [form EXCEPT !.audioBlob = None]
    /\ Quiet
    /\ UNCHANGED <<dbVars, download, envVars, nextId, isModalOpen, editingMemory,
                   viewingMemory, settingsPanel, auxVars>>

\* handleSave, then onSave (the list is loaded again) and onClose.
HandleSave ==
    /\ isModalOpen
    /\ form.photoFile # None \/ editingMemory # None
    /\ editingMemory = None => nextId <= MaxIds
    /\ LET settings == getSettings(settingsStore)
           newMemory == NewMemory(editingMemory, form, settings, now)
       IN  /\ Layers(newMemory.textMemory) <= MaxLayers
           /\ memoriesStore' = saveMemory(memoriesStore, newMemory)
           /\ call' = [fn |-> "handleSave", id |-> newMemory.id[1],
                       edit |-> editingMemory # None]
    /\ ret' = NoRet
    /\ nextId' = IF editingMemory = None THEN nextId + 1 ELSE nextId
    /\ isModalOpen' = FALSE
    /\ editingMemory' = None
    /\ form' = ResetForm(form)
    /\ UNCHANGED <<settingsStore, download, envVars, viewingMemory, settingsPanel, auxVars>>

\* Cancel, or the x of the modal.
CloseModal ==
    /\ isModalOpen
    /\ isModalOpen' = FALSE
    /\ editingMemory' = None
    /\ form' = ResetForm(form)
    /\ Quiet
    /\ UNCHANGED <<dbVars, download, envVars, nextId, viewingMemory, settingsPanel, auxVars>>

\* handleDeleteMemory, confirmed; the list is loaded again.
HandleDeleteMemory(id) ==
    /\ HomeActive
    /\ id \in DOMAIN memoriesStore
    /\ memoriesStore' = deleteMemory(memoriesStore, id)
    /\ call' = [fn |-> "handleDeleteMemory", id |-> id]
    /\ ret' = NoRet
    /\ UNCHANGED <<settingsStore, download, envVars, uiVars, auxVars>>

HandleViewMemory(id) ==
    /\ HomeActive
    /\ id \in DOMAIN memoriesStore
    /\ viewingMemory' = Some(memoriesStore[id])
    /\ Quiet
    /\ UNCHANGED <<dbVars, download, envVars, nextId, isModalOpen, editingMemory,
                   form, settingsPanel, auxVars>>

CloseViewModal ==
    /\ viewingMemory # None
    /\ viewingMemory' = None
    /\ Quiet
    /\ UNCHANGED <<dbVars, download, envVars, nextId, isModalOpen, editingMemory,
                   form, settingsPanel, auxVars>>

\* The gear button: SettingsPanel mounts and loads the settings.
OpenSettings ==
    /\ HomeActive
    /\ LET settings == getSettings(settingsStore)
       IN  settingsPanel' =
               Some([settings |-> settings,
                     encryptionKey |-> IF settings.encryptionKey = None THEN ""
                                       ELSE settings.encryptionKey[1]])
    /\ Quiet
    /\ UNCHANGED <<dbVars, download, envVars, nextId, isModalOpen, editingMemory,
                   form, viewingMemory, auxVars>>

\* The "Enable Encryption" checkbox.
ToggleEncryptionEnabled ==
    /\ settingsPanel # None
    /\ settingsPanel' =
           Some([settingsPanel[1] EXCEPT !.settings.encryptionEnabled = ~@])
    /\ Quiet
    /\ UNCHANGED <<dbVars, download, envVars, nextId, isModalOpen, editingMemory,
                   form, viewingMemory, auxVars>>

\* The key input, rendered while the checkbox is checked.
SetEncryptionKey(key) ==
    /\ settingsPanel # None
    /\ settingsPanel[1].settings.encryptionEnabled
    /\ settingsPanel[1].encryptionKey # key
    /\ settingsPanel' = Some([settingsPanel[1] EXCEPT !.encryptionKey = key])
    /\ Quiet
    /\ UNCHANGED <<dbVars, download, envVars, nextId, isModalOpen, editingMemory,
                   form, viewingMemory, auxVars>>

\* handleSaveSettings: encryptionKey.trim() || undefined.
HandleSaveSettings ==
    /\ settingsPanel # None
    /\ settingsStore' =
           saveSettings(settingsStore,
               [settingsPanel[1].settings EXCEPT
                   !.encryptionKey = IF settingsPanel[1].encryptionKey = "" THEN None
                                     ELSE Some(settingsPanel[1].encryptionKey)])
    /\ settingsPanel' = None
    /\ call' = [fn |-> "handleSaveSettings"]
    /\ ret' = NoRet
    /\ UNCHANGED <<memoriesStore, download, envVars, nextId, isModalOpen,
                   editingMemory, form, viewingMemory, auxVars>>

CloseSettings ==
    /\ settingsPanel # None
    /\ settingsPanel' = None
    /\ Quiet
    /\ UNCHANGED <<dbVars, download, envVars, nextId, isModalOpen, editingMemory,
                   form, viewingMemory, auxVars>>

\* Files the user may pick for import: manifests of one entry for an id
\* this installation generated (a backup, possibly edited by hand).
PickedFiles == {"backup", "undated", "nophoto", "badphoto", "nolist"}

BackupEntry(id) ==
    ManifestEntry(
        [id |-> Some(id), photoUrl |-> blobToDataUrl(Jpeg), photoBlob |-> Some(Jpeg),
         textMemory |-> <<"note">>, audioBlob |-> Some(Webm), unlockDate |-> None,
         isEncrypted |-> FALSE, createdAt |-> Some(0), updatedAt |-> Some(0)])

UndatedEntry(id) ==
    [f \in DOMAIN BackupEntry(id) \ {"createdAt"} |-> BackupEntry(id)[f]]

PickedFile(name, id) ==
    LET file == [json |-> TRUE, hasMemories |-> TRUE, isArray |-> TRUE,
                 version |-> "1.0.0", exportDate |-> 0,
                 memories |-> << BackupEntry(id) >>]
    IN  CASE name = "backup" -> file
          [] name = "undated" -> [file EXCEPT !.memories = << UndatedEntry(id) >>]
          [] name = "nophoto" -> DamagedFile(
                [file EXCEPT !.memories =
                    << [f \in DOMAIN BackupEntry(id) \ {"photoDataUrl"} |->
                           BackupEntry(id)[f]] >>], {}, "none")
          [] name = "badphoto" -> DamagedFile(file, {1}, "truncated")
          [] name = "nolist" -> InvalidFile(file, "nolist")

\* window.location.reload(): what InitAux describes holds again.
ReloadAux ==
    /\ dbInstance' = None
    /\ initPc' = [c \in Callers |-> "idle"]
    /\ initGot' = [c \in Callers |-> None]
    /\ opened' = 0
    /\ liveStreams' = 0
    /\ darkMode' = FALSE
    /\ docDark' = FALSE
    /\ themeLoaded' = FALSE
    /\ toggleQueue' = <<>>

\* handleImport: importData; on success the page is loaded again (its
\* state, its database handle and its audio streams are gone), on failure
\* the panel stays.
HandleImport(name, id) ==
    /\ settingsPanel # None
    /\ id \in 1..(nextId - 1)
    /\ LET r == importData(PickedFile(name, id), memoriesStore)
       IN  /\ memoriesStore' = r.store
           /\ call' = [fn |-> "handleImport", file |-> name, id |-> id]
           /\ ret' = [threw |-> r.threw, count |-> r.count]
           /\ IF r.threw
              THEN UNCHANGED <<isModalOpen, editingMemory, form, viewingMemory,
                               settingsPanel, auxVars>>
              ELSE /\ isModalOpen' = FALSE
                   /\ editingMemory' = None
                   /\ form' = InitialForm
                   /\ viewingMemory' = None
                   /\ settingsPanel' = None
                   /\ ReloadAux
    /\ UNCHANGED <<settingsStore, download, envVars, nextId>>

\* Texts and dates the user enters.
TypedTexts == { <<>>, <<"note">> }

PickedDates == { None, Some(MaxTime) }

Init ==
    /\ memoriesStore = EmptyStore
    /\ settingsStore = EmptyStore
    /\ call = NoCall
    /\ ret = NoRet
    /\ download = None
    /\ untypedMime \in UntypedMimes
    /\ now = 0
    /\ InitUi
    /\ InitAux

Next ==
    \/ Tick
    \/ OpenAddModal
    \/ \E id \in DOMAIN memoriesStore : HandleEditMemory(id)
    \/ HandlePhotoChange(Jpeg)
    \/ RemovePhoto
    \/ \E text \in TypedTexts : SetTextMemory(text)
    \/ \E date \in PickedDates : SetUnlockDate(date)
    \/ StartRecording
    \/ StopRecording
    \/ DeleteAudio
    \/ HandleSave
    \/ CloseModal
    \/ \E id \in DOMAIN memoriesStore : HandleDeleteMemory(id)
    \/ \E id \in DOMAIN memoriesStore : HandleViewMemory(id)
    \/ CloseViewModal
    \/ OpenSettings
    \/ ToggleEncryptionEnabled
    \/ \E key \in {""} \cup Passphrases : SetEncryptionKey(key)
    \/ HandleSaveSettings
    \/ CloseSettings
    \/ \E name \in PickedFiles, id \in 1..MaxIds : HandleImport(name, id)

\* The page: memories are created, edited, viewed, deleted and imported,
\* settings changed, while time passes.
Spec == Init /\ [][Next]_vars

\* ------------------------------------------------ claims on the store

\* C8: after saveMemory(m), getMemoryById(m.id) is m in every field and
\* getAllMemories holds m as the only record of that id.
C8_ReadYourWrites ==
    call.fn = "saveMemory" =>
        LET m == call.memory
            all == getAllMemories(memoriesStore)
        IN  /\ getMemoryById(memoriesStore, m.id[1]) = Some(m)
            /\ \E n \in DOMAIN all : all[n] = m
            /\ Cardinality({ n \in DOMAIN all : all[n].id = m.id }) = 1

\* A save that replaced a different record of the same id, beside another id.
C8_Witness ==
    /\ call.fn = "saveMemory"
    /\ call.replaced # None
    /\ call.replaced[1] # call.memory
    /\ Cardinality(DOMAIN memoriesStore) > 1

\* C9: a deleteMemory(id) step leaves getMemoryById(id) undefined, does not
\* throw whether or not the id was stored, and changes no other record.
C9_DeleteContract ==
    [][call'.fn = "deleteMemory" =>
          /\ getMemoryById(memoriesStore', call'.id) = None
          /\ ~ret'.threw
          /\ DOMAIN memoriesStore' = DOMAIN memoriesStore \ {call'.id}
          /\ \A k \in DOMAIN memoriesStore' : memoriesStore'[k] = memoriesStore[k]
      ]_vars

\* A delete of an absent id right after a delete that removed it, with
\* another record still stored.
C9_Witness ==
    /\ call.fn = "deleteMemory"
    /\ ~call.present
    /\ memoriesStore # EmptyStore

\* C10: with no settings row getSettings is the defaults; right after
\* saveSettings(s) it is s; the settings store never holds two rows.
C10_SettingsContract ==
    /\ settingsStore = EmptyStore =>
          getSettings(settingsStore) =
              [darkMode |-> FALSE, encryptionEnabled |-> FALSE,
               encryptionKey |-> None]
    /\ call.fn = "saveSettings" => getSettings(settingsStore) = call.settings
    /\ Cardinality(DOMAIN settingsStore) <= 1

\* Settings other than the defaults were saved over earlier ones and read.
C10_Witness ==
    /\ call.fn = "saveSettings"
    /\ call.settings.darkMode
    /\ call.settings.encryptionEnabled
    /\ call.settings.encryptionKey = Some("k1")
    /\ getSettings(settingsStore) = call.settings

\* ---------------------------------------------- claims on the archive

\* C1: the manifest of an export, imported unchanged into an empty store,
\* gives back exactly the exported records, equal in every field.
C1_RoundTrip ==
    [][(/\ call'.fn = "importData"
        /\ call'.valid
        /\ call'.bad = {}
        /\ memoriesStore = EmptyStore)
       => /\ ~ret'.threw
          /\ ret'.count = Cardinality(DOMAIN download[1].from)
          /\ memoriesStore' = download[1].from
      ]_vars

\* `got` is `sent` but for the media type of the photo.
SameButPhotoType(got, sent) ==
    /\ got.photoBlob # None
    /\ got.photoBlob[1].bytes = sent.photoBlob[1].bytes
    /\ [got EXCEPT !.photoBlob = sent.photoBlob] = sent

\* C2: importing a manifest of n entries of which those at the positions
\* `bad` carry an undecodable token or cannot be saved does not throw,
\* returns n - k, and stores each of the other n - k records.
C2_PerRecordIsolation ==
    [][(call'.fn = "importData" /\ call'.valid)
       => LET entries == download[1].file.memories
              good == DOMAIN entries \ call'.bad
          IN  /\ ~ret'.threw
              /\ ret'.count = Len(entries) - Cardinality(call'.bad)
              /\ \A n \in good :
                    /\ entries[n].id \in DOMAIN memoriesStore'
                    /\ SameButPhotoType(memoriesStore'[entries[n].id],
                                        download[1].from[entries[n].id])
      ]_vars

\* Entry 2 of 3 was damaged: count 2, records 1 and 3 stored.
C2_Witness ==
    /\ call.fn = "importData"
    /\ call.valid
    /\ call.bad = {2}
    /\ Len(download[1].file.memories) = 3
    /\ ret.count = 2
    /\ DOMAIN memoriesStore = {1, 3}

\* C3: importing a file without a memories array throws and writes nothing.
C3_InvalidManifest ==
    [][(call'.fn = "importData" /\ ~call'.valid)
       => /\ ret'.threw
          /\ memoriesStore' = memoriesStore
      ]_vars

\* An invalid file that carries three entries was refused by a store that
\* holds none of them.
C3_Witness ==
    /\ call.fn = "importData"
    /\ ~call.valid
    /\ ret.threw
    /\ Len(download[1].file.memories) = 3
    /\ memoriesStore = EmptyStore

\* C11: exportAllData throws exactly when the conversion of an attachment
\* of some record fails; when it throws no archive is offered for download
\* (the downloads are as before); when it succeeds the archive offered
\* holds every record of the store; in both cases the store is as before.
C11_ExportAllOrNothing ==
    [][call'.fn = "exportAllData" =>
          /\ memoriesStore' = memoriesStore
          /\ settingsStore' = settingsStore
          /\ ret'.threw <=> call'.unreadable # {}
          /\ ret'.threw => download' = download
          /\ ~ret'.threw =>
                /\ download' # None
                /\ Len(download'[1].file.memories) = Cardinality(DOMAIN memoriesStore)
                /\ download'[1].file = exportAllData(memoriesStore, now)]_vars

\* C11 witness: an export of two or more records has just thrown because
\* one record could not be converted, and nothing has been downloaded.
C11_Witness ==
    /\ call.fn = "exportAllData"
    /\ ret.threw
    /\ Cardinality(call.unreadable) = 1
    /\ Cardinality(DOMAIN memoriesStore) >= 2
    /\ download = None

\* The modal and its recorder: a memory is added, with or without a voice
\* memory, and the modal is closed at any point.
NextRecorder ==
    \/ OpenAddModal
    \/ HandlePhotoChange(Jpeg)
    \/ RemovePhoto
    \/ \E text \in TypedTexts : SetTextMemory(text)
    \/ StartRecording
    \/ StartRecordingFails
    \/ StopRecording
    \/ DeleteAudio
    \/ HandleSave
    \/ CloseModal

SpecRecorder == Init /\ [][NextRecorder]_vars

\* C13: the microphone is held only while the modal is open and recording:
\* once the modal is closed, by Cancel or by a save, or the start of the
\* recorder has failed, no stream is live.
C13_MicrophoneScoped ==
    ~(isModalOpen /\ form.isRecording) => liveStreams = 0

\* ------------------------------------------------------------ the theme

\* The storage requests are served in the order they are made: loadTheme's
\* read is ahead of every toggle's, a toggle's write is made when its read
\* is answered, so reads and writes of the toggles go oldest first.

\* loadTheme: getSettings answers; setDarkMode and the document class.
LoadThemeResolves ==
    /\ ~themeLoaded
    /\ themeLoaded' = TRUE
    /\ darkMode' = getSettings(settingsStore).darkMode
    /\ docDark' = getSettings(settingsStore).darkMode
    /\ Quiet
    /\ UNCHANGED <<toggleQueue, dbVars, download, envVars, uiVars, initVars,
                   liveStreams>>

\* toggleDarkMode up to its first await: the state and the document class
\* change at once, getSettings is called.  The button is in the header,
\* under the overlays but still reached with the keyboard.
ToggleDarkMode ==
    /\ Len(toggleQueue) < MaxPending
    /\ darkMode' = ~darkMode
    /\ docDark' = ~darkMode
    /\ toggleQueue' = Append(toggleQueue,
                             [newDarkMode |-> ~darkMode, currentSettings |-> None])
    /\ Quiet
    /\ UNCHANGED <<themeLoaded, dbVars, download, envVars, uiVars, initVars,
                   liveStreams>>

\* The position of the oldest toggle that has not read the settings yet.
FirstUnread ==
    { i \in 1..Len(toggleQueue) :
        /\ toggleQueue[i].currentSettings = None
        /\ \A j \in 1..(i - 1) : toggleQueue[j].currentSettings # None }

\* toggleDarkMode: `currentSettings = await getSettings()` is answered.
ToggleReads ==
    /\ themeLoaded
    /\ \E i \in FirstUnread :
          toggleQueue' = [toggleQueue EXCEPT
                             ![i].currentSettings = Some(getSettings(settingsStore))]
    /\ Quiet
    /\ UNCHANGED <<darkMode, docDark, themeLoaded, dbVars, download, envVars,
                   uiVars, initVars, liveStreams>>

\* toggleDarkMode: saveSettings({ ...currentSettings, darkMode: newDarkMode }).
ToggleWrites ==
    /\ toggleQueue # <<>>
    /\ Head(toggleQueue).currentSettings # None
    /\ settingsStore' =
           saveSettings(settingsStore,
               [Head(toggleQueue).currentSettings[1] EXCEPT
                   !.darkMode = Head(toggleQueue).newDarkMode])
    /\ toggleQueue' = Tail(toggleQueue)
    /\ call' = [fn |-> "toggleDarkMode", darkMode |-> Head(toggleQueue).newDarkMode]
    /\ ret' = NoRet
    /\ UNCHANGED <<darkMode, docDark, themeLoaded, memoriesStore, download,
                   envVars, uiVars, initVars, liveStreams>>

NextSettings ==
    \/ LoadThemeResolves
    \/ ToggleDarkMode
    \/ ToggleReads
    \/ ToggleWrites
    \/ OpenSettings
    \/ ToggleEncryptionEnabled
    \/ \E key \in {""} \cup Passphrases : SetEncryptionKey(key)
    \/ HandleSaveSettings
    \/ CloseSettings

\* The two writers of the settings record: the theme provider and the
\* settings panel.
SpecSettings == Init /\ [][NextSettings]_vars

\* The encryption fields of a settings value.
EncryptionFields(settings) == <<settings.encryptionEnabled, settings.encryptionKey>>

\* C17: the write of toggleDarkMode leaves the stored encryptionEnabled and
\* encryptionKey as they are and stores the darkMode of the toggle; the
\* save of the settings panel leaves the stored darkMode as it is.
C17_NoLostUpdate ==
    [][/\ call'.fn = "toggleDarkMode" =>
             /\ EncryptionFields(getSettings(settingsStore')) =
                    EncryptionFields(getSettings(settingsStore))
             /\ getSettings(settingsStore').darkMode = call'.darkMode
       /\ call'.fn = "handleSaveSettings" =>
             getSettings(settingsStore').darkMode =
                 getSettings(settingsStore).darkMode]_vars

\* C19: when loadTheme has had its answer and no toggle is pending, the
\* darkMode state and the document class equal the stored darkMode.
C19_ThemeConsistent ==
    themeLoaded /\ toggleQueue = <<>> =>
        /\ darkMode = getSettings(settingsStore).darkMode
        /\ docDark = darkMode

\* ----------------------------------------------------------- the cipher

\* Passphrases handed to encryptText and decryptText: omitted, empty, the
\* built-in one spelled out, and two of the user's.
CipherKeys == { None, Some(""), Some(ENCRYPTION_KEY), Some("k1"), Some("k2") }

CipherTexts == { <<>>, <<"note">>, <<"dear", "diary">> }

\* decryptText(encryptText(text, k1), k2)
DecryptTextCall(text, k1, k2) ==
    /\ call' = [fn |-> "decryptText", text |-> text, k1 |-> k1, k2 |-> k2]
    /\ ret' \in decryptText(encryptText(text, k1), k2)
    /\ UNCHANGED <<dbVars, download, envVars, uiVars, auxVars>>

NextCipher ==
    \E text \in CipherTexts, k1 \in CipherKeys, k2 \in CipherKeys :
        DecryptTextCall(text, k1, k2)

\* Texts encrypted under one passphrase and decrypted under another.
SpecCipher == InitStore /\ [][NextCipher]_vars

\* C15: decrypting under a passphrase other than the one the text was
\* encrypted under, an omitted or empty passphrase being the built-in one,
\* throws.
C15_WrongKeyThrows ==
    call.fn = "decryptText" /\ KeyOf(call.k1) # KeyOf(call.k2) => ret.threw

\* ------------------------------------------------- claims on the page

\* The settings a card or the view modal may hold: not loaded yet, or loaded.
ReaderSettings == { None, Some(getSettings(settingsStore)) }

\* A step is handleSave writing the record `id`.
SavedByHandleSave(id) == call'.fn = "handleSave" /\ call'.id = id

\* A step is handleImport writing the record `id`.
SavedByImport(id) ==
    /\ call'.fn = "handleImport"
    /\ call'.id = id
    /\ ~ret'.threw
    /\ ret'.count = 1

\* C4: while a record's unlockDate is after the clock, the card preview and
\* the view modal show none of its text and do not play its audio, and
\* opening it in the edit modal puts neither its text nor its audio in the
\* form; a record whose unlockDate has passed is readable in full (its text
\* on the card and in the view modal when it is not encrypted, its audio
\* playable); the passing of time leaves the stored records as they are.
C4_TimeLock ==
    /\ [](\A id \in DOMAIN memoriesStore :
            LET memory == memoriesStore[id]
            IN  \A settings \in ReaderSettings :
                  IF isLocked(memory, now)
                  THEN /\ memory.textMemory # <<>> =>
                              getTextPreview(memory, settings, now) = { LockedLabel }
                       /\ ViewShownTexts(memory, settings, now) = {}
                       /\ ~ViewCanPlayAudio(memory, now)
                  ELSE /\ ~memory.isEncrypted =>
                          /\ getTextPreview(memory, settings, now) = { memory.textMemory }
                          /\ getDisplayText(memory, settings, now) = { Some(memory.textMemory) }
                       /\ memory.audioBlob # None => ViewCanPlayAudio(memory, now))
    /\ [][now' # now => memoriesStore' = memoriesStore]_vars
    /\ [][\A id \in DOMAIN memoriesStore :
            (/\ ~isModalOpen
             /\ isModalOpen'
             /\ editingMemory' = Some(memoriesStore[id])
             /\ isLocked(memoriesStore[id], now))
            => /\ memoriesStore[id].textMemory # <<>> =>
                      ModalShownText' # memoriesStore[id].textMemory
               /\ memoriesStore[id].audioBlob # None => ~ModalCanPlayAudio']_vars

\* C5: a handleSave of an id that is already stored leaves the record's
\* isEncrypted as it was stamped, whatever the encryptionEnabled setting
\* has become since.
C5_IsEncryptedFixed ==
    [][\A id \in DOMAIN memoriesStore :
          SavedByHandleSave(id) =>
             memoriesStore'[id].isEncrypted = memoriesStore[id].isEncrypted]_vars

\* C6, as claimed: every save of a record, by handleSave or by importData,
\* writes updatedAt = the time of the save; the first save of an id writes
\* a createdAt and every later save of that id leaves it as it is.
C6_TimestampsOnEverySave ==
    [][\A id \in 1..MaxIds :
          SavedByHandleSave(id) \/ SavedByImport(id) =>
             /\ memoriesStore'[id].updatedAt = Some(now)
             /\ memoriesStore'[id].createdAt # None
             /\ id \in DOMAIN memoriesStore =>
                   memoriesStore'[id].createdAt = memoriesStore[id].createdAt]_vars

\* C6, amended: handleSave writes updatedAt = the time of the save, and
\* createdAt = the createdAt of the stored record it edits when that record
\* has one, else the time of the save; importData writes the createdAt and
\* updatedAt of the manifest entry, absent when the entry has none.
C6_TimestampsBySave ==
    [][\A id \in 1..MaxIds :
          /\ SavedByHandleSave(id) =>
                /\ memoriesStore'[id].updatedAt = Some(now)
                /\ memoriesStore'[id].createdAt =
                       IF id \in DOMAIN memoriesStore /\ memoriesStore[id].createdAt # None
                       THEN memoriesStore[id].createdAt
                       ELSE Some(now)
          /\ SavedByImport(id) =>
                LET entry == PickedFile(call'.file, id).memories[1]
                IN  /\ memoriesStore'[id].createdAt = Field(entry, "createdAt")
                    /\ memoriesStore'[id].updatedAt = Field(entry, "updatedAt")]_vars

\* C6 witness: an edit was just saved to a record created earlier.
C6_Witness ==
    /\ call.fn = "handleSave"
    /\ call.edit
    /\ memoriesStore[call.id].createdAt = Some(0)
    /\ memoriesStore[call.id].updatedAt = Some(now)
    /\ now > 0

\* C7: every stored memory has a photoBlob.
C7_PhotoPresent ==
    \A id \in DOMAIN memoriesStore : memoriesStore[id].photoBlob # None

\* C7 witness: an edit was just saved with the photo removed from the form
\* and no new file picked.
C7_Witness ==
    /\ call.fn = "handleSave"
    /\ call.edit
    /\ memoriesStore[call.id].photoUrl = <<>>
    /\ memoriesStore[call.id].photoBlob # None

\* C16: a stored record flagged isEncrypted is never shown as its stored
\* text, by the card or by the view modal, whatever the settings are and
\* whether or not the reader's settings have been loaded.
C16_NeverRawCiphertext ==
    \A id \in DOMAIN memoriesStore :
        LET memory == memoriesStore[id]
        IN  memory.isEncrypted /\ memory.textMemory # <<>> =>
               \A settings \in ReaderSettings :
                  /\ memory.textMemory \notin getTextPreview(memory, settings, now)
                  /\ Some(memory.textMemory) \notin getDisplayText(memory, settings, now)

\* C18: a stored record with a text has isEncrypted true exactly when the
\* text is the user's note under one layer of encryption, and false exactly
\* when it is the note itself.
C18_TextMatchesFlag ==
    \A id \in DOMAIN memoriesStore :
        LET memory == memoriesStore[id]
        IN  memory.textMemory # <<>> =>
               Layers(memory.textMemory) = IF memory.isEncrypted THEN 1 ELSE 0

====
